---- MODULE Spec2Model ----
(***************************************************************************)
(* Model of scripts/run-benchmark.py: the BenchmarkRunner suite, its       *)
(* foreground trial sequence, the background docker-stats sampling threads *)
(* and the aggregation of the samples; and of scripts/results-to-csv.py,   *)
(* the exporter of the saved reports.                                      *)
(*                                                                         *)
(* Text is a sequence of one-character strings, so that str.replace,       *)
(* str.split, str.strip, the pattern of parse_size_to_mb, float() and      *)
(* int() are computed on the characters.  A Python float is an exact       *)
(* fraction [num, den] with den > 0 (rounding is not modelled).  A list    *)
(* object lives in heap under an integer reference, so that a list and its *)
(* copy are different objects.  Time is abstracted: a sleep is a point at  *)
(* which the other thread may run, a timeout is a nondeterministic         *)
(* outcome of the call it bounds.  Of the console output only the          *)
(* exporter's is modelled.                                                 *)
(***************************************************************************)
EXTENDS Integers, Sequences, FiniteSets, TLC

(* ---- bounds of the model ---- *)
MaxRuns == 2
MaxPolls == 1
MaxSamples == 3
MaxFiles == 2

(* ---- program constants ---- *)
UnpackTimeout == 300
ExpectedArgc == 5

NoRef == 0
NoThread == 0
Threads == 1..MaxRuns
Refs == 1..3

(* ---- inputs the environment can produce ---- *)
ArgcInputs == {4, 5}
NumRunsInputs == 0..MaxRuns
Durations == {10, 20}
TargetImage == "image"

\* the snapshot the polls of the suite yield; what the threads do with it
\* does not depend on its content
CpuTexts == { <<"2", ".", "5", "%">> }
MemTexts ==
    { <<"1", ".", "5", "M", "i", "B", " ", "/", " ", "2", "G", "i", "B">> }
PidTexts == { <<"7">> }
BlockTexts == { <<"1", "M", "B", " ", "/", " ", "5", "M", "B">> }
NetTexts == { <<"6", "4", "8", "k", "B", " ", "/", " ", "1", "2", "k", "B">> }
Snapshots ==
    [ Name : {"c"}, CPUPerc : CpuTexts, MemUsage : MemTexts, PIDs : PidTexts,
      BlockIO : BlockTexts, NetIO : NetTexts ]

\* the snapshots analyze_stats is applied to on its own: `docker stats`
\* prints "--" for a container it has no figures for
AggCpuTexts ==
    { <<"2", ".", "5", "%">>, <<"1", "0", "%">>, <<"0", ".", "0", "0", "%">>,
      <<"-", "-">> }
AggBlockTexts ==
    { <<"1", "M", "B", " ", "/", " ", "5", "M", "B">>,
      <<"2", "M", "B", " ", "/", " ", "3", "M", "B">>,
      <<"-", "-">> }
AggSnapshots ==
    [ Name : {"c"}, CPUPerc : AggCpuTexts, MemUsage : MemTexts,
      PIDs : PidTexts, BlockIO : AggBlockTexts, NetIO : NetTexts ]

\* the texts parse_size_to_mb is applied to on its own: a number, a unit,
\* and blanks before, between and after them
SizeNumbers ==
    { << >>, <<"0">>, <<"1">>, <<"5", "1", "2">>, <<"1", ".", "5">>,
      <<"2", ".", "3">>, <<".", "5">>, <<"1", ".">>, <<".">>,
      <<"1", ".", "2", ".", "3">>, <<"-", "1">> }
SizeUnits ==
    { << >>, <<"B">>, <<"K", "B">>, <<"k", "B">>, <<"K", "i", "B">>,
      <<"M", "B">>, <<"M", "i", "B">>, <<"G", "B">>, <<"G", "i", "B">>,
      <<"T", "B">>, <<"T", "i", "B">>, <<"t", "i", "b">>, <<"X", "B">>,
      <<"B", "2">>, <<"g", "a", "r", "b", "a", "g", "e">> }
Blanks == { << >>, <<" ">> }
SizeTexts ==
    { a \o n \o b \o u \o c :
        a \in Blanks, n \in SizeNumbers, b \in Blanks, u \in SizeUnits,
        c \in Blanks }

(* what `docker stats` can yield for one poll (run-benchmark.py:33-35) *)
PollResults ==
    { [kind |-> "timeout"], [kind |-> "nonzero"], [kind |-> "empty"],
      [kind |-> "malformed"] }
    \cup [kind : {"object"}, value : Snapshots]

(* what `ctr image pull` can yield for one unpack (run-benchmark.py:135) *)
UnpackResults ==
    { [kind |-> "timeout"] }
    \cup [kind : {"completed"}, returncode : {0}, stdout : {"done"}, stderr : {""}]
    \cup [kind : {"completed"}, returncode : {1}, stdout : {""}, stderr : {"unpack failed"}]

FetchOutcomes == {"ok", "nonzero", "timeout"}

\* what the state reset can meet (run-benchmark.py:86-109): every ctr command
\* exits with 0, one exits with another status, or one raises
ResetOutcomes == {"ok", "nonzero", "raised"}
CleanResets == {"ok"}
NoResult == [kind |-> "none"]

(* ---- exact fractions standing for Python floats ---- *)
Rat(n, d) == [num |-> n, den |-> d]
RatInt(n) == Rat(n, 1)
RatEq(a, b) == a.num * b.den = b.num * a.den
RatLeq(a, b) == a.num * b.den <= b.num * a.den
RatAdd(a, b) == Rat(a.num * b.den + b.num * a.den, a.den * b.den)
RatDivInt(a, n) == Rat(a.num, a.den * n)

RECURSIVE RatSum(_)
RatSum(s) == IF s = <<>> THEN RatInt(0) ELSE RatAdd(s[1], RatSum(Tail(s)))

RECURSIVE RatMax(_)
RatMax(s) ==
    IF Len(s) = 1 THEN s[1]
    ELSE LET m == RatMax(Tail(s)) IN IF RatLeq(m, s[1]) THEN s[1] ELSE m

RECURSIVE RatMin(_)
RatMin(s) ==
    IF Len(s) = 1 THEN s[1]
    ELSE LET m == RatMin(Tail(s)) IN IF RatLeq(s[1], m) THEN s[1] ELSE m

(* ---- text ---- *)
Digits == {"0", "1", "2", "3", "4", "5", "6", "7", "8", "9"}

DigitVal(c) ==
    CASE c = "0" -> 0 [] c = "1" -> 1 [] c = "2" -> 2 [] c = "3" -> 3
      [] c = "4" -> 4 [] c = "5" -> 5 [] c = "6" -> 6 [] c = "7" -> 7
      [] c = "8" -> 8 [] c = "9" -> 9

(* str.replace(c, ''): every occurrence of c removed *)
Replace(s, c) == SelectSeq(s, LAMBDA x : x # c)

RECURSIVE Pow10(_)
Pow10(k) == IF k = 0 THEN 1 ELSE 10 * Pow10(k - 1)

RECURSIVE DigitsValue(_)
DigitsValue(s) ==
    IF s = <<>> THEN 0
    ELSE 10 * DigitsValue(SubSeq(s, 1, Len(s) - 1)) + DigitVal(s[Len(s)])

(* float(text) over the alphabet digits, '.', '+', '-', '%': an optional   *)
(* sign, then digits with at most one '.', at least one digit; anything    *)
(* else raises ValueError.                                                 *)
FloatBody(s) == IF s # <<>> /\ s[1] \in {"-", "+"} THEN Tail(s) ELSE s

FloatParses(s) ==
    LET b == FloatBody(s) IN
      /\ \A k \in 1..Len(b) : b[k] \in Digits \cup {"."}
      /\ Cardinality({k \in 1..Len(b) : b[k] = "."}) <= 1
      /\ \E k \in 1..Len(b) : b[k] \in Digits

FloatOf(s) ==
    LET b == FloatBody(s)
        dots == {k \in 1..Len(b) : b[k] = "."}
        frac == IF dots = {} THEN 0 ELSE Len(b) - (CHOOSE k \in dots : TRUE)
        mag == DigitsValue(Replace(b, "."))
        sign == IF s[1] = "-" THEN -1 ELSE 1
    IN Rat(sign * mag, Pow10(frac))

(* dict.get(key, default) *)
Get(d, key, default) == IF key \in DOMAIN d THEN d[key] ELSE default

RatMul(a, b) == Rat(a.num * b.num, a.den * b.den)

\* position of the first occurrence of sep in s at or after k, 0 if none
RECURSIVE Find(_, _, _)
Find(s, sep, k) ==
    IF k + Len(sep) - 1 > Len(s) THEN 0
    ELSE IF SubSeq(s, k, k + Len(sep) - 1) = sep THEN k
    ELSE Find(s, sep, k + 1)

(* str.split(sep): the parts between the occurrences of sep, left to right *)
RECURSIVE Split(_, _)
Split(s, sep) ==
    LET k == Find(s, sep, 1) IN
      IF k = 0 THEN <<s>>
      ELSE <<SubSeq(s, 1, k - 1)>> \o Split(SubSeq(s, k + Len(sep), Len(s)), sep)

(* sep in s *)
Contains(s, sep) == Find(s, sep, 1) # 0

\* the separator ' / ' of the two-figure columns of `docker stats`
Slash == <<" ", "/", " ">>

\* the whitespace of the texts modelled is the blank
Whitespace == {" "}

RECURSIVE LStrip(_)
LStrip(s) == IF s # <<>> /\ s[1] \in Whitespace THEN LStrip(Tail(s)) ELSE s

RECURSIVE RStrip(_)
RStrip(s) ==
    IF s # <<>> /\ s[Len(s)] \in Whitespace
      THEN RStrip(SubSeq(s, 1, Len(s) - 1)) ELSE s

(* str.strip() *)
Strip(s) == RStrip(LStrip(s))

LowerCase ==
    << "a", "b", "c", "d", "e", "f", "g", "h", "i", "j", "k", "l", "m",
       "n", "o", "p", "q", "r", "s", "t", "u", "v", "w", "x", "y", "z" >>
UpperCase ==
    << "A", "B", "C", "D", "E", "F", "G", "H", "I", "J", "K", "L", "M",
       "N", "O", "P", "Q", "R", "S", "T", "U", "V", "W", "X", "Y", "Z" >>
Letters == {LowerCase[k] : k \in 1..26} \cup {UpperCase[k] : k \in 1..26}

(* str.upper() *)
UpperOf == [c \in {LowerCase[k] : k \in 1..26} |->
               UpperCase[CHOOSE k \in 1..26 : LowerCase[k] = c]]
UpperChar(c) == IF c \in DOMAIN UpperOf THEN UpperOf[c] ELSE c
Upper(s) == [k \in 1..Len(s) |-> UpperChar(s[k])]

\* length of the longest prefix of s made of characters of C
RECURSIVE PrefixLen(_, _)
PrefixLen(s, C) ==
    IF s # <<>> /\ s[1] \in C THEN 1 + PrefixLen(Tail(s), C) ELSE 0

(* int(text) over the alphabet digits, '+', '-': an optional sign, then    *)
(* at least one digit and digits only; anything else raises ValueError.    *)
IntParses(s) ==
    LET b == FloatBody(s) IN
      b # <<>> /\ \A k \in 1..Len(b) : b[k] \in Digits

IntOf(s) == (IF s[1] = "-" THEN -1 ELSE 1) * DigitsValue(FloatBody(s))

(* ---- BenchmarkRunner.parse_size_to_mb ---- *)
\* line 251: re.match(r'^([0-9.]+)\s*([A-Za-z]+)$'); the three character
\* classes are disjoint, so the groups are the longest runs
NumberChars == Digits \cup {"."}
SizeNumber(s) == SubSeq(s, 1, PrefixLen(s, NumberChars))
SizeUnit(s) == LStrip(SubSeq(s, PrefixLen(s, NumberChars) + 1, Len(s)))

SizeMatches(s) ==
    LET unit == SizeUnit(s) IN
      /\ s # <<>> /\ s[1] \in NumberChars
      /\ unit # <<>>
      /\ \A k \in 1..Len(unit) : unit[k] \in Letters

UnknownUnitFactorZero == RatInt(0)

\* line 271: conversions.get(unit, 1)
UnknownUnitFactor == RatInt(1)

\* lines 259-269
Conversions(unit) ==
    CASE unit = <<"B">> -> Rat(1, 1024 * 1024)
      [] unit = <<"K", "B">> -> Rat(1, 1024)
      [] unit = <<"K", "I", "B">> -> Rat(1, 1024)
      [] unit = <<"M", "B">> -> RatInt(1)
      [] unit = <<"M", "I", "B">> -> RatInt(1)
      [] unit = <<"G", "B">> -> RatInt(1024)
      [] unit = <<"G", "I", "B">> -> RatInt(1024)
      [] unit = <<"T", "B">> -> RatInt(1024 * 1024)
      [] unit = <<"T", "I", "B">> -> RatInt(1024 * 1024)
      [] OTHER -> UnknownUnitFactor

\* lines 242-273; float() of the number group raising ValueError is caught
parse_size_to_mb(size_str) ==
    LET s == Strip(size_str)
        number == SizeNumber(s)
    IN
      IF s = <<>> \/ s = <<"0", "B">> THEN RatInt(0)
      ELSE IF ~SizeMatches(s) THEN RatInt(0)
      ELSE IF ~FloatParses(number) THEN RatInt(0)
      ELSE RatMul(FloatOf(number), Conversions(Upper(SizeUnit(s))))

VARIABLES
    pc,             \* position of the foreground (main thread)
    num_runs,       \* self.num_runs
    i,              \* loop variable of run_benchmark_suite
    results,        \* results list of run_benchmark_suite
    monitoring,     \* self.monitoring
    stats_data,     \* self.stats_data: reference to a list in heap
    heap,           \* the live list objects
    stats_thread,   \* self.stats_thread
    tpc,            \* position of each sampling thread
    polls,          \* polls made so far by all sampling threads
    unpack_calls,   \* times the unpack operation has been invoked
    unpack_result,  \* result / exception of subprocess.run in the trial
    duration,       \* end_time - start_time of the trial
    local_stats,    \* local stats_data of run_single_benchmark (a reference)
    peak_stats,     \* local peak_stats of run_single_benchmark
    fetch,          \* outcome of the content fetch
    report,         \* value returned by run_benchmark_suite
    saved,          \* content of the output file
    exit_code,      \* exit status of the process
    trial_log,      \* the steps run_single_benchmark has made in the trial
    pauses,         \* times the pause between trials has been made
    reset           \* outcome of the state reset of the trial

\* scripts/results-to-csv.py
VARIABLES
    cpc,            \* position of the exporter
    directory,      \* the results directory the exporter is given
    result_files,   \* result_files of main
    file_idx,       \* position of main's loop in result_files
    all_stats,      \* all_stats of main
    err,            \* lines written to stderr
    out,            \* the table written to stdout
    csv_exit        \* exit status of the exporter

runnerVars == << pc, num_runs, i, results, monitoring, stats_data, heap,
                 stats_thread, tpc, polls, unpack_calls,
                 unpack_result, duration, local_stats, peak_stats, fetch,
                 report, saved, exit_code, trial_log, pauses, reset >>

csvVars == << cpc, directory, result_files, file_idx, all_stats, err, out,
              csv_exit >>

vars == << runnerVars, csvVars >>

threadVars == << tpc, polls >>

traceVars == << trial_log, pauses, reset >>

Running == -1
EmptyDict == << >>

(* ---- BenchmarkRunner.analyze_stats ---- *)
\* lines 190-198: the CPU values that parse; a value that does not is skipped
RECURSIVE cpu_values(_)
cpu_values(stats) ==
    IF stats = <<>> THEN <<>>
    ELSE LET stat == stats[Len(stats)]
             cpu_str == Replace(Get(stat, "CPUPerc", <<"0", "%">>), "%")
             rest == cpu_values(SubSeq(stats, 1, Len(stats) - 1))
         IN IF FloatParses(cpu_str) THEN Append(rest, FloatOf(cpu_str)) ELSE rest

\* the default '0B / 0B' of the two-figure columns
DefaultPair == <<"0", "B", " ", "/", " ", "0", "B">>

\* a column of the snapshots, each text split at ' / '
Pairs(stats, column) ==
    [k \in 1..Len(stats) |-> Split(Get(stats[k], column, DefaultPair), Slash)]

\* lines 200-204: the figure before ' / '; a text without ' / ' is skipped
memory_values(stats) ==
    LET ok == SelectSeq(Pairs(stats, "MemUsage"), LAMBDA parts : Len(parts) > 1)
    IN [k \in 1..Len(ok) |-> parse_size_to_mb(ok[k][1])]

\* lines 206-210: the counts that parse
pid_values(stats) ==
    LET ok == SelectSeq(stats, LAMBDA st : IntParses(Get(st, "PIDs", <<"0">>)))
    IN [k \in 1..Len(ok) |-> IntOf(Get(ok[k], "PIDs", <<"0">>))]

\* lines 212-224: the part-th figure of the texts of a column that hold
\* ' / '; a text without ' / ' is skipped
PairValues(stats, column, part) ==
    LET ok == SelectSeq(Pairs(stats, column), LAMBDA parts : Len(parts) > 1)
    IN [k \in 1..Len(ok) |-> parse_size_to_mb(ok[k][part])]

block_io_read(stats) == PairValues(stats, "BlockIO", 1)
block_io_write(stats) == PairValues(stats, "BlockIO", 2)
net_io_rx(stats) == PairValues(stats, "NetIO", 1)
net_io_tx(stats) == PairValues(stats, "NetIO", 2)

\* lines 215 and 222: unpacking the split into two names raises ValueError
\* when the text holds ' / ' more than once
UnpackRaises(stats) ==
    \E k \in 1..Len(stats) :
        \/ Len(Split(Get(stats[k], "BlockIO", DefaultPair), Slash)) > 2
        \/ Len(Split(Get(stats[k], "NetIO", DefaultPair), Slash)) > 2

RECURSIVE IntMax(_)
IntMax(s) ==
    IF Len(s) = 1 THEN s[1]
    ELSE LET m == IntMax(Tail(s)) IN IF m <= s[1] THEN s[1] ELSE m

PeakOf(s) == IF s # <<>> THEN RatMax(s) ELSE RatInt(0)
MeanOf(s) == IF s # <<>> THEN RatDivInt(RatSum(s), Len(s)) ELSE RatInt(0)

EmptyStatsZeroed ==
    [ cpu_peak_percent |-> RatInt(0), cpu_avg_percent |-> RatInt(0),
      memory_peak_mb |-> RatInt(0), memory_avg_mb |-> RatInt(0),
      pid_peak_count |-> 0, block_io_read_peak_mb |-> RatInt(0),
      block_io_write_peak_mb |-> RatInt(0),
      block_io_total_write_mb |-> RatInt(0), net_io_rx_mb |-> RatInt(0),
      net_io_tx_mb |-> RatInt(0), samples_collected |-> 0 ]

\* lines 178-179: return {}
EmptyStats == EmptyDict

\* lines 176-240
analyze_stats(stats) ==
    IF stats = <<>> THEN EmptyStats
    ELSE IF UnpackRaises(stats) THEN [error |-> "Stats analysis failed"]
    ELSE LET c == cpu_values(stats)
             m == memory_values(stats)
             p == pid_values(stats)
             w == block_io_write(stats)
         IN
         [ cpu_peak_percent |-> PeakOf(c),
           cpu_avg_percent |-> MeanOf(c),
           memory_peak_mb |-> PeakOf(m),
           memory_avg_mb |-> MeanOf(m),
           pid_peak_count |-> IF p # <<>> THEN IntMax(p) ELSE 0,
           block_io_read_peak_mb |-> PeakOf(block_io_read(stats)),
           block_io_write_peak_mb |-> PeakOf(w),
           block_io_total_write_mb |-> IF w # <<>> THEN w[Len(w)] ELSE RatInt(0),
           net_io_rx_mb |-> PeakOf(net_io_rx(stats)),
           net_io_tx_mb |-> PeakOf(net_io_tx(stats)),
           samples_collected |-> Len(stats) ]

(* ---- BenchmarkRunner.run_single_benchmark: the records it returns ---- *)
SuccessWheneverCompleted(result) == result.returncode >= 0

\* line 143
Success(result) == result.returncode = 0

CompletedRecord(run_id, result, d, stats, peak) ==
    [ run_id |-> run_id,
      success |-> Success(result),
      duration_seconds |-> d,
      target_image |-> TargetImage,
      peak_metrics |-> peak,
      raw_stats_count |-> Len(stats),
      containerd_stdout |-> result.stdout,
      containerd_stderr |-> IF ~Success(result) THEN result.stderr ELSE "" ]

TimeoutRecord(run_id) ==
    [ run_id |-> run_id,
      success |-> FALSE,
      duration_seconds |-> UnpackTimeout,
      target_image |-> TargetImage,
      error |-> "timeout" ]

(* ---- BenchmarkRunner.run_benchmark_suite: summary statistics ---- *)
all_runs(rs) == SelectSeq(rs, LAMBDA r : "duration_seconds" \in DOMAIN r)

\* line 316
successful_runs(rs) == SelectSeq(rs, LAMBDA r : Get(r, "success", FALSE))

durations(rs) ==
    LET ok == successful_runs(rs) IN
    [k \in 1..Len(ok) |-> RatInt(ok[k].duration_seconds)]

failed_runs_timeouts(rs) == Len(SelectSeq(rs, LAMBDA r : "error" \in DOMAIN r))

\* line 327
failed_runs(rs) == Len(rs) - Len(successful_runs(rs))

Summary(rs) ==
    LET ds == durations(rs) IN
    [ benchmark_config |->
          [target_image |-> TargetImage, num_runs |-> num_runs],
      summary |->
          [ successful_runs |-> Len(successful_runs(rs)),
            failed_runs |-> failed_runs(rs),
            avg_duration_seconds |->
                IF ds # <<>> THEN RatDivInt(RatSum(ds), Len(ds)) ELSE RatInt(0),
            min_duration_seconds |-> IF ds # <<>> THEN RatMin(ds) ELSE RatInt(0),
            max_duration_seconds |-> IF ds # <<>> THEN RatMax(ds) ELSE RatInt(0) ],
      runs |-> rs ]

(* ---- list objects ---- *)
FreshRef(h) == CHOOSE r \in Refs : r \notin DOMAIN h /\ \A q \in Refs : q < r => q \in DOMAIN h

\* the objects still referenced by self.stats_data or by the trial's local
Collect(h, sd, loc) == [r \in DOMAIN h \cap {sd, loc} |-> h[r]]

\* the exporter is a program of its own; it is not running
NoDirectory == [exists |-> FALSE]

ExporterIdle ==
    /\ cpc = "main"
    /\ directory = NoDirectory
    /\ result_files = <<>>
    /\ file_idx = 0
    /\ all_stats = <<>>
    /\ err = <<>>
    /\ out = <<>>
    /\ csv_exit = Running

RunnerInit ==
    /\ pc = "main"
    /\ num_runs = 0
    /\ i = 0
    /\ results = <<>>
    /\ monitoring = FALSE
    /\ stats_data = 1
    /\ heap = [r \in {1} |-> <<>>]
    /\ stats_thread = NoThread
    /\ tpc = [t \in Threads |-> "unborn"]
    /\ polls = 0
    /\ unpack_calls = 0
    /\ unpack_result = NoResult
    /\ duration = 0
    /\ local_stats = NoRef
    /\ peak_stats = EmptyDict
    /\ fetch = "none"
    /\ report = EmptyDict
    /\ saved = EmptyDict
    /\ exit_code = Running
    /\ trial_log = <<>>
    /\ pauses = 0
    /\ reset = "none"

Init == RunnerInit /\ ExporterIdle

(* ---- main() ---- *)
\* lines 349-363: argument count check, runner construction
Main(argc, n) ==
    /\ pc = "main"
    /\ IF argc # ExpectedArgc
         THEN /\ pc' = "exited" /\ exit_code' = 1 /\ UNCHANGED num_runs
         ELSE /\ pc' = "fetch" /\ num_runs' = n /\ UNCHANGED exit_code
    /\ UNCHANGED << i, results, monitoring, stats_data, heap, stats_thread,
                    unpack_calls, unpack_result, duration, local_stats,
                    peak_stats, fetch, report, saved >>
    /\ UNCHANGED threadVars
    /\ UNCHANGED traceVars
    /\ UNCHANGED csvVars

FetchRaisesOnStatusOnly(outcome) == outcome = "nonzero"

\* lines 65-81: a failed or timed-out pull raises
FetchRaises(outcome) == outcome # "ok"

\* lines 304-306 with main's handler at 394-396
EnsureImageDownloaded(outcome) ==
    /\ pc = "fetch"
    /\ fetch' = outcome
    /\ IF FetchRaises(outcome)
         THEN /\ pc' = "exited" /\ exit_code' = 1 /\ UNCHANGED << i, results >>
         ELSE /\ pc' = "loop" /\ i' = 1 /\ results' = <<>> /\ UNCHANGED exit_code
    /\ UNCHANGED << num_runs, monitoring, stats_data, heap, stats_thread,
                    unpack_calls, unpack_result, duration, local_stats,
                    peak_stats, report, saved >>
    /\ UNCHANGED threadVars
    /\ UNCHANGED traceVars
    /\ UNCHANGED csvVars

LoopDoneEarly(k, n) == k >= n

\* line 307: for i in range(1, self.num_runs + 1)
LoopDone(k, n) == k > n

ForLoop ==
    /\ pc = "loop"
    /\ pc' = IF LoopDone(i, num_runs) THEN "summary" ELSE "prepare"
    /\ UNCHANGED << num_runs, i, results, monitoring, stats_data, heap,
                    stats_thread, unpack_calls, unpack_result, duration,
                    local_stats, peak_stats, fetch, report, saved, exit_code >>
    /\ UNCHANGED threadVars
    /\ UNCHANGED traceVars
    /\ UNCHANGED csvVars

ResetAbortsOnRaise(outcome) == outcome = "raised"

\* lines 86-112: the return codes of the ctr commands are not looked at and
\* an exception is caught, so no outcome of the reset is propagated
ResetAborts(outcome) == FALSE

AfterPrepareUnpack == "unpack"

\* line 127: after the reset, start_monitoring
AfterPrepare == "L52"

\* lines 121-124: the state reset changes only the container runtime
PrepareUnpackBenchmark(outcome) ==
    /\ pc = "prepare"
    /\ reset' = outcome
    /\ trial_log' = <<"reset">>
    /\ IF ResetAborts(outcome)
         THEN pc' = "exited" /\ exit_code' = 1
         ELSE pc' = AfterPrepare /\ exit_code' = exit_code
    /\ UNCHANGED << num_runs, i, results, monitoring, stats_data, heap,
                    stats_thread, unpack_calls, unpack_result, duration,
                    local_stats, peak_stats, fetch, report, saved, pauses >>
    /\ UNCHANGED threadVars
    /\ UNCHANGED csvVars

(* ---- BenchmarkRunner.start_monitoring ---- *)
\* line 52
StartSetFlag ==
    /\ pc = "L52"
    /\ monitoring' = TRUE
    /\ pc' = "L53"
    /\ UNCHANGED << num_runs, i, results, stats_data, heap, stats_thread,
                    unpack_calls, unpack_result, duration, local_stats,
                    peak_stats, fetch, report, saved, exit_code >>
    /\ UNCHANGED threadVars
    /\ trial_log' = Append(trial_log, "start_monitoring")
    /\ UNCHANGED << pauses, reset >>
    /\ UNCHANGED csvVars

\* line 53: self.stats_data is bound to a new empty list
StartReset ==
    /\ pc = "L53"
    /\ LET r == FreshRef(heap) IN
         /\ stats_data' = r
         /\ heap' = Collect([q \in DOMAIN heap \cup {r} |->
                                IF q = r THEN <<>> ELSE heap[q]], r, local_stats)
    /\ pc' = "L54"
    /\ UNCHANGED << num_runs, i, results, monitoring, stats_thread,
                    unpack_calls, unpack_result, duration, local_stats,
                    peak_stats, fetch, report, saved, exit_code >>
    /\ UNCHANGED threadVars
    /\ UNCHANGED traceVars
    /\ UNCHANGED csvVars

\* lines 54-56: the thread of trial i is created and started
StartThread ==
    /\ pc = "L54"
    /\ stats_thread' = i
    /\ tpc' = [tpc EXCEPT ![i] = "loop"]
    /\ pc' = "unpack"
    /\ UNCHANGED << num_runs, i, results, monitoring, stats_data, heap,
                    unpack_calls, unpack_result, duration, local_stats,
                    peak_stats, fetch, report, saved, exit_code, polls >>
    /\ UNCHANGED traceVars
    /\ UNCHANGED csvVars

(* ---- BenchmarkRunner.run_single_benchmark ---- *)
\* lines 130-136 and 165: the unpack returns or its 300s timeout expires
Unpack(res, d) ==
    /\ pc = "unpack"
    /\ unpack_calls' = unpack_calls + 1
    /\ unpack_result' = res
    /\ duration' = IF res.kind = "timeout" THEN 0 ELSE d
    /\ pc' = "L60"
    /\ UNCHANGED << num_runs, i, results, monitoring, stats_data, heap,
                    stats_thread, local_stats, peak_stats, fetch, report,
                    saved, exit_code >>
    /\ UNCHANGED threadVars
    /\ trial_log' = Append(trial_log, "unpack")
    /\ UNCHANGED << pauses, reset >>
    /\ UNCHANGED csvVars

(* ---- BenchmarkRunner.stop_monitoring ---- *)
\* line 60
StopSetFlag ==
    /\ pc = "L60"
    /\ monitoring' = FALSE
    /\ pc' = "L62"
    /\ UNCHANGED << num_runs, i, results, stats_data, heap, stats_thread,
                    unpack_calls, unpack_result, duration, local_stats,
                    peak_stats, fetch, report, saved, exit_code >>
    /\ UNCHANGED threadVars
    /\ trial_log' = Append(trial_log, "stop_monitoring")
    /\ UNCHANGED << pauses, reset >>
    /\ UNCHANGED csvVars

JoinWithoutTimeout(t) == tpc[t] = "done"

\* line 62: join(timeout=2) returns when the thread has exited, or when the
\* two seconds are over while the thread is still inside a poll (a poll may
\* take up to 5s; every other step of the thread takes at most the 0.1s sleep)
JoinReturns(t) == tpc[t] = "done" \/ tpc[t] = "poll"

Join ==
    /\ pc = "L62"
    /\ stats_thread # NoThread => JoinReturns(stats_thread)
    /\ pc' = "L63"
    /\ UNCHANGED << num_runs, i, results, monitoring, stats_data, heap,
                    stats_thread, unpack_calls, unpack_result, duration,
                    local_stats, peak_stats, fetch, report, saved, exit_code >>
    /\ UNCHANGED threadVars
    /\ UNCHANGED traceVars
    /\ UNCHANGED csvVars

StopReturnLive(copy) == stats_data

\* line 63: what stop_monitoring returns, given the reference to the new copy
StopReturn(copy) == copy

\* line 63, with line 139 (result bound to the local) or 166 (result dropped)
StopCopy ==
    /\ pc = "L63"
    /\ LET r == FreshRef(heap)
           h == [q \in DOMAIN heap \cup {r} |->
                    IF q = r THEN heap[stats_data] ELSE heap[q]]
           loc == IF unpack_result.kind = "timeout" THEN NoRef ELSE StopReturn(r)
       IN /\ local_stats' = loc
          /\ heap' = Collect(h, stats_data, loc)
    /\ pc' = IF unpack_result.kind = "timeout" THEN "L167" ELSE "L152"
    /\ UNCHANGED << num_runs, i, results, monitoring, stats_data,
                    stats_thread, unpack_calls, unpack_result, duration,
                    peak_stats, fetch, report, saved, exit_code >>
    /\ UNCHANGED threadVars
    /\ UNCHANGED traceVars
    /\ UNCHANGED csvVars

\* line 152
Analyze ==
    /\ pc = "L152"
    /\ peak_stats' = analyze_stats(heap[local_stats])
    /\ pc' = "L154"
    /\ UNCHANGED << num_runs, i, results, monitoring, stats_data, heap,
                    stats_thread, unpack_calls, unpack_result, duration,
                    local_stats, fetch, report, saved, exit_code >>
    /\ UNCHANGED threadVars
    /\ trial_log' = Append(trial_log, "analyze_stats")
    /\ UNCHANGED << pauses, reset >>
    /\ UNCHANGED csvVars

PauseNeededAlways(k, n) == k <= n

\* line 312: if i < self.num_runs
PauseNeeded(k, n) == k < n

\* lines 309-313: the record is appended; a pause follows unless it was the
\* last trial
AppendResult(rec) ==
    /\ results' = Append(results, rec)
    /\ IF PauseNeeded(i, num_runs)
         THEN pc' = "L313" /\ i' = i
         ELSE pc' = "loop" /\ i' = i + 1
    /\ local_stats' = NoRef
    /\ heap' = Collect(heap, stats_data, NoRef)
    /\ peak_stats' = EmptyDict
    /\ unpack_result' = NoResult
    /\ duration' = 0

\* lines 154-163
ReturnRecord ==
    /\ pc = "L154"
    /\ AppendResult(CompletedRecord(i, unpack_result, duration,
                                    heap[local_stats], peak_stats))
    /\ UNCHANGED << num_runs, monitoring, stats_data, stats_thread,
                    unpack_calls, fetch, report, saved, exit_code >>
    /\ UNCHANGED threadVars
    /\ UNCHANGED traceVars
    /\ UNCHANGED csvVars

\* lines 167-174
ReturnTimeout ==
    /\ pc = "L167"
    /\ AppendResult(TimeoutRecord(i))
    /\ UNCHANGED << num_runs, monitoring, stats_data, stats_thread,
                    unpack_calls, fetch, report, saved, exit_code >>
    /\ UNCHANGED threadVars
    /\ UNCHANGED traceVars
    /\ UNCHANGED csvVars

\* line 313: time.sleep(2), then the next iteration
Pause ==
    /\ pc = "L313"
    /\ i' = i + 1
    /\ pc' = "loop"
    /\ UNCHANGED << num_runs, results, monitoring, stats_data, heap,
                    stats_thread, unpack_calls, unpack_result, duration,
                    local_stats, peak_stats, fetch, report, saved, exit_code >>
    /\ UNCHANGED threadVars
    /\ pauses' = pauses + 1
    /\ UNCHANGED << trial_log, reset >>
    /\ UNCHANGED csvVars

\* lines 315-335
Summarize ==
    /\ pc = "summary"
    /\ report' = Summary(results)
    /\ pc' = "save"
    /\ UNCHANGED << num_runs, i, results, monitoring, stats_data, heap,
                    stats_thread, unpack_calls, unpack_result, duration,
                    local_stats, peak_stats, fetch, saved, exit_code >>
    /\ UNCHANGED threadVars
    /\ UNCHANGED traceVars
    /\ UNCHANGED csvVars

\* lines 337-342 and 367-396: the file is written and main returns, or the
\* write raises and main's handler exits with status 1
SaveResults(written) ==
    /\ pc = "save"
    /\ IF written
         THEN saved' = report /\ exit_code' = 0
         ELSE saved' = saved /\ exit_code' = 1
    /\ pc' = "exited"
    /\ UNCHANGED << num_runs, i, results, monitoring, stats_data, heap,
                    stats_thread, unpack_calls, unpack_result, duration,
                    local_stats, peak_stats, fetch, report >>
    /\ UNCHANGED threadVars
    /\ UNCHANGED traceVars
    /\ UNCHANGED csvVars

(* ---- BenchmarkRunner.collect_stats: one sampling thread ---- *)
\* line 31: while self.monitoring
LoopCheck(t) ==
    /\ exit_code = Running
    /\ tpc[t] = "loop"
    /\ IF monitoring
         THEN /\ polls < MaxPolls
              /\ tpc' = [tpc EXCEPT ![t] = "poll"]
         ELSE /\ tpc' = [tpc EXCEPT ![t] = "done"]
    /\ UNCHANGED << pc, num_runs, i, results, monitoring, stats_data, heap,
                    stats_thread, unpack_calls, unpack_result, duration,
                    local_stats, peak_stats, fetch, report, saved, exit_code,
                    polls >>
    /\ UNCHANGED traceVars
    /\ UNCHANGED csvVars

\* lines 34-35: the poll yielded a JSON object
PollOk(r) == r.kind = "object"

AfterFailedPollExit == "done"

\* lines 45-48: where the thread goes after a failed poll
AfterFailedPoll == "loop"

\* lines 33-48: the poll returns; a snapshot is appended to the list
\* self.stats_data refers to at that moment; then the 0.1s sleep
Poll(t, r) ==
    /\ exit_code = Running
    /\ tpc[t] = "poll"
    /\ polls' = polls + 1
    /\ IF PollOk(r)
         THEN /\ heap' = [heap EXCEPT ![stats_data] = Append(@, r.value)]
              /\ tpc' = [tpc EXCEPT ![t] = "loop"]
         ELSE /\ heap' = heap
              /\ tpc' = [tpc EXCEPT ![t] = AfterFailedPoll]
    /\ UNCHANGED << pc, num_runs, i, results, monitoring, stats_data,
                    stats_thread, unpack_calls, unpack_result, duration,
                    local_stats, peak_stats, fetch, report, saved, exit_code >>
    /\ UNCHANGED traceVars
    /\ UNCHANGED csvVars

\* the steps of the foreground, the unpack drawing its result from U and its
\* duration from D, the state reset its outcome from R
MainStepOver(U, D, R) ==
    \/ \E argc \in ArgcInputs, n \in NumRunsInputs : Main(argc, n)
    \/ \E outcome \in FetchOutcomes : EnsureImageDownloaded(outcome)
    \/ ForLoop
    \/ \E outcome \in R : PrepareUnpackBenchmark(outcome)
    \/ StartSetFlag
    \/ StartReset
    \/ StartThread
    \/ \E res \in U, d \in D : Unpack(res, d)
    \/ StopSetFlag
    \/ Join
    \/ StopCopy
    \/ Analyze
    \/ ReturnRecord
    \/ ReturnTimeout
    \/ Pause
    \/ Summarize
    \/ \E written \in BOOLEAN : SaveResults(written)

\* The outcome of the state reset changes nothing the runner keeps, so the
\* suite is explored with resets that succeed; TrialSpec below draws every
\* outcome of the reset.
MainStep == MainStepOver(UnpackResults, Durations, CleanResets)

Next ==
    \/ MainStep
    \/ \E t \in Threads : LoopCheck(t)
    \/ \E t \in Threads, r \in PollResults : Poll(t, r)

Spec == Init /\ [][Next]_vars

(* ---- the same program under fair scheduling ---- *)
\* Whether stop_monitoring returns does not depend on the duration measured,
\* so the unpack yields one duration, with every kind of outcome.
FairDurations == {10}

FairMainStep == MainStepOver(UnpackResults, FairDurations, CleanResets)

FairNext ==
    \/ FairMainStep
    \/ \E t \in Threads : LoopCheck(t)
    \/ \E t \in Threads, r \in PollResults : Poll(t, r)

\* Fairness is assumed of the steps of stop_monitoring (the foreground runs
\* when it can) and of a sampling thread's loop test (the thread reaches it
\* after its 0.1s sleep).  Nothing is assumed of a poll: it may block.
FairSpec ==
    /\ Init /\ [][FairNext]_vars
    /\ WF_vars(StopSetFlag)
    /\ WF_vars(Join)
    /\ WF_vars(StopCopy)
    /\ \A t \in Threads : WF_vars(LoopCheck(t))

(* ---- the suite with every outcome of the state reset ---- *)
\* What a trial does after its reset does not depend on the duration
\* measured, so the unpack yields one duration, with every kind of outcome.
TrialMainStep == MainStepOver(UnpackResults, FairDurations, ResetOutcomes)

TrialNext ==
    \/ TrialMainStep
    \/ \E t \in Threads : LoopCheck(t)
    \/ \E t \in Threads, r \in PollResults : Poll(t, r)

TrialSpec == Init /\ [][TrialNext]_vars

(* ---- analyze_stats on its own ---- *)
BoundedSeq(S, n) == UNION { [1..k -> S] : k \in 0..n }

\* the first trial of a one-run suite, at line 152: the unpack has exited
\* with status 0, the thread has ended, stop_monitoring has returned a copy
\* of the list S the thread collected
AggInitOver(Lists) ==
    \E S \in Lists :
      /\ pc = "L152"
      /\ num_runs = 1
      /\ i = 1
      /\ results = <<>>
      /\ monitoring = FALSE
      /\ stats_data = 2
      /\ heap = [r \in {1, 2} |-> S]
      /\ local_stats = 1
      /\ stats_thread = 1
      /\ tpc = [t \in Threads |-> IF t = 1 THEN "done" ELSE "unborn"]
      /\ polls = MaxPolls
      /\ unpack_calls = 1
      /\ unpack_result \in { r \in UnpackResults : r.kind = "completed" /\ r.returncode = 0 }
      /\ duration = 10
      /\ peak_stats = EmptyDict
      /\ fetch = "ok"
      /\ report = EmptyDict
      /\ saved = EmptyDict
      /\ exit_code = Running
      /\ trial_log = <<"reset", "start_monitoring", "unpack", "stop_monitoring">>
      /\ pauses = 0
      /\ reset = "ok"
      /\ ExporterIdle

AggInit == AggInitOver(BoundedSeq(AggSnapshots, MaxSamples))

AggNext == Analyze \/ ReturnRecord

AggSpec == AggInit /\ [][AggNext]_vars

(* ---- parse_size_to_mb on its own ---- *)
\* analyze_stats hands the text before ' / ' of MemUsage to parse_size_to_mb
\* (lines 201-204), so that memory_peak_mb of a one-snapshot list is the
\* value of parse_size_to_mb on that text
SizeSnapshot(t) ==
    [ Name |-> "c", CPUPerc |-> <<"2", ".", "5", "%">>,
      MemUsage |-> t \o Slash \o <<"2", "G", "i", "B">>, PIDs |-> <<"7">>,
      BlockIO |-> <<"1", "M", "B", " ", "/", " ", "5", "M", "B">>,
      NetIO |-> <<"6", "4", "8", "k", "B", " ", "/", " ", "1", "2", "k", "B">> ]

SizeInit == AggInitOver({ <<SizeSnapshot(t)>> : t \in SizeTexts })

SizeSpec == SizeInit /\ [][AggNext]_vars

(***************************************************************************)
(* scripts/results-to-csv.py: the exporter                                 *)
(***************************************************************************)
\* the reports a directory can hold: what run-benchmark.py saves for a
\* suite, or a file that is not JSON
OkResult == [kind |-> "completed", returncode |-> 0, stdout |-> "done", stderr |-> ""]
FailedResult ==
    [kind |-> "completed", returncode |-> 1, stdout |-> "", stderr |-> "unpack failed"]
OneSnapshot == CHOOSE S \in [1..1 -> Snapshots] : TRUE

OkRecord(k) ==
    CompletedRecord(k, OkResult, 10, OneSnapshot, analyze_stats(OneSnapshot))
FailedRecord(k) ==
    CompletedRecord(k, FailedResult, 10, OneSnapshot, analyze_stats(OneSnapshot))

ReportOf(rs) == [Summary(rs) EXCEPT !.benchmark_config.num_runs = Len(rs)]

ReportContents ==
    { [kind |-> "garbage"] }
    \cup [ kind : {"json"},
           data : { ReportOf(<< >>),
                    ReportOf(<<TimeoutRecord(1)>>),
                    ReportOf(<<FailedRecord(1)>>),
                    ReportOf(<<OkRecord(1)>>),
                    ReportOf(<<OkRecord(1), TimeoutRecord(2)>>) } ]

\* 'benchmark_<k>.json'
NamePrefix == <<"b", "e", "n", "c", "h", "m", "a", "r", "k", "_">>
NameSuffix == <<".", "j", "s", "o", "n">>
Stamp(k) == CASE k = 1 -> "1" [] k = 2 -> "2" [] k = 3 -> "3" [] OTHER -> "4"
FileName(k) == NamePrefix \o <<Stamp(k)>> \o NameSuffix

\* the files glob finds, in the order it yields them; no two files were
\* modified at the same time
FileLists(n) ==
    { fs \in [1..n -> [name : {FileName(k) : k \in 1..n}, mtime : 1..n,
                       content : ReportContents]] :
        /\ \A k \in 1..n : fs[k].name = FileName(k)
        /\ \A j, k \in 1..n : j # k => fs[j].mtime # fs[k].mtime }

Directories ==
    { NoDirectory }
    \cup [exists : {TRUE}, files : UNION { FileLists(n) : n \in 0..MaxFiles }]

\* line 76: newest first
RECURSIVE SortNewestFirst(_)
SortNewestFirst(fs) ==
    IF fs = <<>> THEN <<>>
    ELSE LET k == CHOOSE x \in 1..Len(fs) :
                      \A y \in 1..Len(fs) : fs[y].mtime <= fs[x].mtime
         IN <<fs[k]>> \o SortNewestFirst(
                SelectSeq(fs, LAMBDA f : f.mtime # fs[k].mtime))

(* str.replace(old, ''): every occurrence of the text old removed *)
RECURSIVE Flatten(_)
Flatten(parts) ==
    IF parts = <<>> THEN <<>> ELSE parts[1] \o Flatten(Tail(parts))
Remove(s, old) == Flatten(Split(s, old))

(* ---- extract_basic_stats ---- *)
\* lines 14-15: json.load raises on a file that is not JSON
LoadRaises(file) == file.content.kind = "garbage"

\* line 22
csv_successful_runs(data) ==
    SelectSeq(Get(data, "runs", <<>>), LAMBDA r : Get(r, "success", FALSE))

\* line 27
all_metrics(data) ==
    LET ok == csv_successful_runs(data) IN
      [k \in 1..Len(ok) |-> Get(ok[k], "peak_metrics", EmptyDict)]

MetricOf(ms, name) == [k \in 1..Len(ms) |-> Get(ms[k], name, RatInt(0))]

\* lines 35-52
BasicStats(file) ==
    LET data == file.content.data
        config == Get(data, "benchmark_config", EmptyDict)
        summary == Get(data, "summary", EmptyDict)
        ms == all_metrics(data)
    IN [ timestamp |-> Get(config, "timestamp", ""),
         target_image |-> Get(config, "target_image", ""),
         num_runs |-> Get(config, "num_runs", 0),
         cpu_limit |-> Get(config, "cpu_limit", "0"),
         memory_limit |-> Get(config, "memory_limit", "0"),
         successful_runs |-> Get(summary, "successful_runs", 0),
         failed_runs |-> Get(summary, "failed_runs", 0),
         avg_duration_seconds |-> Get(summary, "avg_duration_seconds", RatInt(0)),
         min_duration_seconds |-> Get(summary, "min_duration_seconds", RatInt(0)),
         max_duration_seconds |-> Get(summary, "max_duration_seconds", RatInt(0)),
         peak_cpu_percent |-> PeakOf(MetricOf(ms, "cpu_peak_percent")),
         avg_cpu_percent |-> MeanOf(MetricOf(ms, "cpu_avg_percent")),
         peak_memory_mb |-> PeakOf(MetricOf(ms, "memory_peak_mb")),
         avg_memory_mb |-> MeanOf(MetricOf(ms, "memory_avg_mb")),
         total_disk_write_mb |-> PeakOf(MetricOf(ms, "block_io_total_write_mb")),
         filename |-> file.name ]

None == [none |-> TRUE]

\* lines 11-55: the value returned and the lines written to stderr
extract_basic_stats(file) ==
    IF LoadRaises(file)
      THEN [stats |-> None, lines |-> <<[line |-> "Error processing", file |-> file.name]>>]
    ELSE IF csv_successful_runs(file.content.data) = <<>>
      THEN [stats |-> None, lines |-> <<>>]
    ELSE [stats |-> BasicStats(file), lines |-> <<>>]

\* lines 90-96
headers ==
    << "timestamp", "target_image", "num_runs", "cpu_limit", "memory_limit",
       "successful_runs", "failed_runs", "avg_duration_seconds",
       "min_duration_seconds", "max_duration_seconds", "peak_cpu_percent",
       "avg_cpu_percent", "peak_memory_mb", "avg_memory_mb",
       "total_disk_write_mb", "filename" >>

\* line 99
col_headers(stats) ==
    <<"metric">> \o
    [k \in 1..Len(stats) |-> Remove(Remove(stats[k].filename, NamePrefix), NameSuffix)]

\* lines 100-107: the header line and one row per metric; a cell holds the
\* value str() is applied to
Table(stats) ==
    <<col_headers(stats)>> \o
    [h \in 1..Len(headers) |->
        <<headers[h]>> \o [k \in 1..Len(stats) |-> stats[k][headers[h]]]]

(* ---- main ---- *)
\* lines 58-76
CsvMain ==
    /\ cpc = "main"
    /\ IF ~directory.exists
         THEN /\ err' = Append(err, [line |-> "Results directory not found"])
              /\ csv_exit' = 1 /\ cpc' = "exited"
              /\ UNCHANGED << result_files, file_idx >>
         ELSE IF directory.files = <<>>
         THEN /\ err' = Append(err, [line |-> "No benchmark files found"])
              /\ csv_exit' = 1 /\ cpc' = "exited"
              /\ UNCHANGED << result_files, file_idx >>
         ELSE /\ result_files' = SortNewestFirst(directory.files)
              /\ file_idx' = 1
              /\ cpc' = "extract"
              /\ UNCHANGED << err, csv_exit >>
    /\ UNCHANGED << directory, all_stats, out >>
    /\ UNCHANGED runnerVars

\* lines 80-83: one iteration of the loop over result_files
Extract ==
    /\ cpc = "extract"
    /\ file_idx <= Len(result_files)
    /\ LET r == extract_basic_stats(result_files[file_idx]) IN
         /\ err' = err \o r.lines
         /\ all_stats' = IF r.stats # None THEN Append(all_stats, r.stats)
                         ELSE all_stats
    /\ file_idx' = file_idx + 1
    /\ UNCHANGED << cpc, directory, result_files, out, csv_exit >>
    /\ UNCHANGED runnerVars

\* lines 85-107
PrintTable ==
    /\ cpc = "extract"
    /\ file_idx > Len(result_files)
    /\ IF all_stats = <<>>
         THEN /\ err' = Append(err, [line |-> "No valid benchmark data found"])
              /\ csv_exit' = 1
              /\ out' = out
         ELSE /\ out' = Table(all_stats)
              /\ csv_exit' = 0
              /\ err' = err
    /\ cpc' = "exited"
    /\ UNCHANGED << directory, result_files, file_idx, all_stats >>
    /\ UNCHANGED runnerVars

CsvInit ==
    /\ RunnerInit
    /\ cpc = "main"
    /\ directory \in Directories
    /\ result_files = <<>>
    /\ file_idx = 0
    /\ all_stats = <<>>
    /\ err = <<>>
    /\ out = <<>>
    /\ csv_exit = Running

CsvNext == CsvMain \/ Extract \/ PrintTable

CsvSpec == CsvInit /\ [][CsvNext]_vars

(***************************************************************************)
(* Properties                                                              *)
(***************************************************************************)
RECURSIVE SumOfDurations(_, _)
SumOfDurations(rs, idx) ==
    IF idx = {} THEN 0
    ELSE LET k == CHOOSE x \in idx : TRUE
         IN rs[k].duration_seconds + SumOfDurations(rs, idx \ {k})

SucceededIdx(rs) == {k \in 1..Len(rs) : rs[k].success}
Reported == report # EmptyDict

\* C1: the summary's min/avg/max duration are taken over the records with
\* success = true only (a timeout's 300s or a failed run's duration never
\* counts); with no successful record all three are 0.
C1_SummaryOverSuccessfulOnly ==
    Reported =>
      LET rs == report.runs
          ok == SucceededIdx(rs)
          sm == report.summary
      IN IF ok = {}
           THEN /\ RatEq(sm.min_duration_seconds, RatInt(0))
                /\ RatEq(sm.avg_duration_seconds, RatInt(0))
                /\ RatEq(sm.max_duration_seconds, RatInt(0))
           ELSE /\ \E k \in ok : RatEq(sm.min_duration_seconds, RatInt(rs[k].duration_seconds))
                /\ \A k \in ok : RatLeq(sm.min_duration_seconds, RatInt(rs[k].duration_seconds))
                /\ \E k \in ok : RatEq(sm.max_duration_seconds, RatInt(rs[k].duration_seconds))
                /\ \A k \in ok : RatLeq(RatInt(rs[k].duration_seconds), sm.max_duration_seconds)
                /\ RatEq(sm.avg_duration_seconds,
                         Rat(SumOfDurations(rs, ok), Cardinality(ok)))

\* a report over a successful run and a failed run of shorter duration
C1_Witness ==
    /\ Reported
    /\ \E j, k \in 1..Len(report.runs) :
         /\ report.runs[j].success
         /\ ~report.runs[k].success
         /\ report.runs[k].duration_seconds < report.runs[j].duration_seconds

\* C2: the record of a trial has success = true iff the unpack completed with
\* status 0; after a timeout it has success = false, error "timeout" and
\* duration exactly 300; after a non-zero exit it has success = false and the
\* unpack's stderr.
C2_OutcomeClassified ==
    [][ Len(results') = Len(results) + 1 =>
          LET r == results'[Len(results')] IN
            /\ r.success <=>
                 (unpack_result.kind = "completed" /\ unpack_result.returncode = 0)
            /\ unpack_result.kind = "timeout" =>
                 /\ ~r.success
                 /\ "error" \in DOMAIN r /\ r.error = "timeout"
                 /\ r.duration_seconds = 300
            /\ (unpack_result.kind = "completed" /\ unpack_result.returncode # 0) =>
                 /\ ~r.success
                 /\ r.containerd_stderr = unpack_result.stderr
                 /\ r.duration_seconds = duration ]_vars

C2_Witness ==
    \E j, k \in 1..Len(results) :
       /\ "error" \in DOMAIN results[j] /\ results[j].error = "timeout"
       /\ "containerd_stderr" \in DOMAIN results[k]
       /\ results[k].containerd_stderr = "unpack failed"

\* C3: every record in the result sequence, whatever the outcome, has the run
\* identifier, success flag, duration, target image, peak metrics and raw
\* sample count.
C3_EveryRecordComplete ==
    \A k \in 1..Len(results) :
       { "run_id", "success", "duration_seconds", "target_image",
         "peak_metrics", "raw_stats_count" } \subseteq DOMAIN results[k]

\* positions of the foreground between the return of stop_monitoring and the
\* next start_monitoring
AfterStop == { "L152", "L154", "L167", "L313", "loop", "prepare", "summary", "save" }

SomeListGrew ==
    \E r \in DOMAIN heap \cap DOMAIN heap' : Len(heap'[r]) > Len(heap[r])

\* C4: no sampling thread appends to a snapshot list once stop_monitoring has
\* returned.
C4_NoAppendAfterStop ==
    [][ (pc \in AfterStop) => ~SomeListGrew ]_vars

StopReturned == pc \in { "L152", "L167" }

\* C5: stop_monitoring, once called, returns, also when the sampling thread
\* stays blocked in a poll; what it returns is the samples collected so far.
C5_StopAlwaysReturns ==
    /\ (pc = "L60") ~> StopReturned
    /\ [][ (pc = "L63" /\ pc' = "L152") =>
             heap'[local_stats'] = heap[stats_data] ]_vars

\* stop_monitoring has returned no sample while the thread is inside a poll
C5_Witness ==
    /\ pc = "L152"
    /\ tpc[stats_thread] = "poll"
    /\ heap[local_stats] = <<>>

\* C6: the list the trial received from stop_monitoring is not changed by
\* anything that happens afterwards, so the sample count the trial aggregated
\* is the count it records.
C6_OwnedCopy ==
    /\ [][ (local_stats # NoRef /\ local_stats' = local_stats) =>
             heap'[local_stats] = heap[local_stats] ]_vars
    /\ [](\A k \in 1..Len(results) :
            ("peak_metrics" \in DOMAIN results[k]
               /\ results[k].peak_metrics # EmptyDict) =>
              results[k].peak_metrics.samples_collected = results[k].raw_stats_count)

\* a late append has made the internal list longer than the trial's copy
C6_Witness ==
    /\ local_stats # NoRef
    /\ pc = "L154"
    /\ peak_stats # EmptyDict
    /\ Len(heap[stats_data]) > Len(heap[local_stats])

\* C7: a failed poll appends nothing and leaves the thread in its loop; a
\* thread ends only by reading the flag as false; a step of a sampling thread
\* changes nothing of the foreground.
C7_FailedPollDropped ==
    [][ /\ \A t \in Threads, r \in PollResults :
             (Poll(t, r) /\ r.kind # "object") =>
                (heap' = heap /\ tpc'[t] = "loop")
        /\ \A t \in Threads :
             (tpc[t] # "done" /\ tpc'[t] = "done") => (tpc[t] = "loop" /\ ~monitoring)
        /\ (tpc' # tpc /\ pc # "L54") =>
             /\ pc' = pc /\ exit_code' = exit_code /\ results' = results
             /\ monitoring' = monitoring ]_vars

\* in the first trial a poll has been made, nothing was appended, and the
\* thread is back in its loop
C7_Witness ==
    /\ pc = "unpack" /\ i = 1
    /\ polls = 1
    /\ heap[stats_data] = <<>>
    /\ tpc[1] = "loop"

\* C8: after a failed content fetch no trial has run, no record exists, no
\* report is written and the process has exited with a non-zero status.
C8_FetchFailureAborts ==
    fetch \notin {"none", "ok"} =>
      /\ results = <<>>
      /\ unpack_calls = 0
      /\ stats_thread = NoThread
      /\ saved = EmptyDict
      /\ pc = "exited" /\ exit_code # Running /\ exit_code # 0

C8_Witness == fetch = "timeout" /\ exit_code = 1

\* C9: after a successful fetch the records carry the run identifiers 1, 2, ..
\* in order, each trial invokes the unpack once, and when the loop is over
\* there are exactly num_runs records and num_runs unpack invocations.
C9_ExactlyNumRunsTrials ==
    fetch = "ok" =>
      /\ \A k \in 1..Len(results) : results[k].run_id = k
      /\ unpack_calls \in {Len(results), Len(results) + 1}
      /\ pc \in {"summary", "save", "exited"} =>
           (Len(results) = num_runs /\ unpack_calls = num_runs)

\* the suite is over: a timeout, then a failed run
C9_Witness ==
    /\ pc = "exited" /\ num_runs = 2 /\ Len(results) = 2
    /\ "error" \in DOMAIN results[1]
    /\ ~results[2].success

(* the contract of normalize_percent: the text without '%' as a float, 0 if
   it does not parse *)
NormalizePercent(text) ==
    LET t == Replace(text, "%") IN IF FloatParses(t) THEN FloatOf(t) ELSE RatInt(0)

CpuOf(S) == [k \in 1..Len(S) |-> NormalizePercent(S[k].CPUPerc)]

\* C10: for the non-empty list the trial aggregates, cpu_peak_percent is the
\* maximum CPU value over all its snapshots and cpu_avg_percent is their sum
\* divided by the number of snapshots.
C10_CpuPeakAndMean ==
    (pc = "L154" /\ heap[local_stats] # <<>>) =>
      LET S == heap[local_stats] IN
        /\ RatEq(peak_stats.cpu_peak_percent, RatMax(CpuOf(S)))
        /\ RatEq(peak_stats.cpu_avg_percent, RatDivInt(RatSum(CpuOf(S)), Len(S)))

(* the write figure of a snapshot as the aggregation's contract has it: the
   normalised text after ' / ', 0 for a snapshot that carries none *)
WriteOf(st) ==
    LET parts == Split(Get(st, "BlockIO", DefaultPair), Slash) IN
      IF Len(parts) = 2 THEN parse_size_to_mb(parts[2]) ELSE RatInt(0)

WritesOf(S) == [k \in 1..Len(S) |-> WriteOf(S[k])]

\* C11: for the non-empty list the trial aggregates, block_io_total_write_mb
\* is the write value of the last snapshot, block_io_write_peak_mb is the
\* maximum write value over the snapshots, and the two differ whenever the
\* last snapshot's write value is not the maximum.
C11_TotalWriteIsLast ==
    (pc = "L154" /\ heap[local_stats] # <<>>) =>
      LET S == heap[local_stats]
          last == WriteOf(S[Len(S)])
      IN
        /\ RatEq(peak_stats.block_io_total_write_mb, last)
        /\ RatEq(peak_stats.block_io_write_peak_mb, RatMax(WritesOf(S)))
        /\ ~RatEq(last, RatMax(WritesOf(S))) =>
             ~RatEq(peak_stats.block_io_total_write_mb,
                    peak_stats.block_io_write_peak_mb)

PeakFields ==
    { "cpu_peak_percent", "cpu_avg_percent", "memory_peak_mb", "memory_avg_mb",
      "pid_peak_count", "block_io_read_peak_mb", "block_io_write_peak_mb",
      "block_io_total_write_mb", "net_io_rx_mb", "net_io_tx_mb",
      "samples_collected" }

IsZero(v) == v = 0 \/ (DOMAIN v = {"num", "den"} /\ v.num = 0)

ClaimFactor(unit) ==
    IF unit = <<"B">> THEN Rat(1, 1048576)
    ELSE IF unit \in {<<"K", "B">>, <<"K", "I", "B">>} THEN Rat(1, 1024)
    ELSE IF unit \in {<<"M", "B">>, <<"M", "I", "B">>} THEN RatInt(1)
    ELSE IF unit \in {<<"G", "B">>, <<"G", "I", "B">>} THEN RatInt(1024)
    ELSE IF unit \in {<<"T", "B">>, <<"T", "I", "B">>} THEN RatInt(1048576)
    ELSE RatInt(1)

\* a decimal number: digits with at most one '.', at least one digit
IsDecimal(n) ==
    /\ \A k \in 1..Len(n) : n[k] \in Digits \cup {"."}
    /\ Cardinality({k \in 1..Len(n) : n[k] = "."}) <= 1
    /\ \E k \in 1..Len(n) : n[k] \in Digits

IsLetters(u) == u # <<>> /\ \A k \in 1..Len(u) : u[k] \in Letters

\* the value the table gives a text made of the number n and the unit u
TableValue(n, u) ==
    IF IsDecimal(n) /\ IsLetters(u)
      THEN RatMul(FloatOf(n), ClaimFactor(Upper(u))) ELSE RatInt(0)

\* <digits/decimal><letters>: the number is the leading run of digits and
\* '.', the unit is all the rest
SizeAsStated(t) ==
    LET n == PrefixLen(t, Digits \cup {"."}) IN
      IF t = <<>> \/ t = <<"0", "B">> THEN RatInt(0)
      ELSE TableValue(SubSeq(t, 1, n), SubSeq(t, n + 1, Len(t)))

\* the same with the blanks around the text and between number and unit
\* left out
SizeWithBlanks(t) ==
    LET s == Strip(t)
        n == PrefixLen(s, Digits \cup {"."})
    IN
      IF s = <<>> \/ s = <<"0", "B">> THEN RatInt(0)
      ELSE TableValue(SubSeq(s, 1, n), LStrip(SubSeq(s, n + 1, Len(s))))

\* the text handed to parse_size_to_mb
SizeInput == Split(heap[local_stats][1].MemUsage, Slash)[1]

\* C14 as stated: parse_size_to_mb raises nothing and returns 0 for the empty
\* text, for '0B' and for a text not of the form <digits/decimal><letters>,
\* otherwise the number times the factor of its unit (1 for an unknown unit).
C14_SizeAsStated ==
    pc = "L154" =>
      /\ "memory_peak_mb" \in DOMAIN peak_stats
      /\ RatEq(peak_stats.memory_peak_mb, SizeAsStated(SizeInput))

\* C14: parse_size_to_mb raises nothing and, with the blanks around the text
\* ignored, returns 0 for the empty text, for '0B' and for a text not of the
\* form <digits/decimal>, optional blanks, <letters>, otherwise the number
\* times the factor of its unit, whatever its case (1 for an unknown unit).
C14_SizeWithBlanks ==
    pc = "L154" =>
      /\ "memory_peak_mb" \in DOMAIN peak_stats
      /\ RatEq(peak_stats.memory_peak_mb, SizeWithBlanks(SizeInput))

\* ' 2.3 GiB' has been normalised to 2355.2
C14_Witness ==
    /\ pc = "L154"
    /\ SizeInput = <<" ", "2", ".", "3", " ", "G", "i", "B">>
    /\ RatEq(peak_stats.memory_peak_mb, Rat(23552, 10))

\* a report of the directory is usable when it parses and holds at least one
\* successful trial
Usable(file) ==
    /\ file.content.kind = "json"
    /\ \E k \in 1..Len(file.content.data.runs) : file.content.data.runs[k].success

Diagnosed(file) == \E k \in 1..Len(err) : Get(err[k], "file", <<>>) = file.name

\* C13: the exporter skips every report that does not parse or holds no
\* successful trial, writes a diagnostic for each report it skips, and still
\* writes the table, whose columns are exactly the usable reports.
C13_SkipsWithDiagnostic ==
    (cpc = "exited" /\ directory.exists /\ directory.files # <<>>) =>
      LET usable == SelectSeq(result_files, Usable) IN
        /\ \A k \in 1..Len(result_files) :
               ~Usable(result_files[k]) => Diagnosed(result_files[k])
        /\ out # <<>> /\ csv_exit = 0
        /\ Len(out[1]) = Len(usable) + 1
        /\ \A k \in 1..Len(usable) : out[Len(headers) + 1][k + 1] = usable[k].name

TrialOrder ==
    <<"reset", "start_monitoring", "unpack", "stop_monitoring", "analyze_stats">>

IsPrefix(a, b) == Len(a) <= Len(b) /\ SubSeq(b, 1, Len(a)) = a

\* C15: the steps of a trial are made in the order reset, start_monitoring,
\* unpack, stop_monitoring, analyze_stats; when the unpack is launched the
\* sampling thread of the trial has been started, and when a record is
\* returned, on the completed and on the timeout path, stop_monitoring has
\* been called after the unpack (analyze_stats is the one step the timeout
\* path does not make).
C15_FixedOrder ==
    /\ IsPrefix(trial_log, TrialOrder)
    /\ pc = "unpack" =>
         /\ trial_log = SubSeq(TrialOrder, 1, 2)
         /\ stats_thread = i /\ tpc[i] # "unborn"
    /\ pc \in {"L154", "L167"} =>
         /\ SubSeq(trial_log, 1, 4) = SubSeq(TrialOrder, 1, 4)
         /\ ~monitoring
    /\ pc = "L154" => trial_log = TrialOrder
    /\ (results # <<>> /\ pc \in {"L313", "loop", "summary", "save", "exited"}) =>
         SubSeq(trial_log, 1, 4) = SubSeq(TrialOrder, 1, 4)

\* the unpack timed out and the record is about to be returned
C15_Witness ==
    /\ pc = "L167"
    /\ unpack_result.kind = "timeout"
    /\ trial_log = SubSeq(TrialOrder, 1, 4)

Alive(t) == tpc[t] \in {"loop", "poll"}

\* C16: once stop_monitoring has returned, and until start_monitoring is
\* called again, the sampler is idle: no sampling thread is running or
\* polling.
C16_IdleAfterStop == (pc \in AfterStop) => \A t \in Threads : ~Alive(t)

ResetFailed == reset \in {"nonzero", "raised"}

TrialPcs == {"L52", "L53", "L54", "unpack", "L60", "L62", "L63", "L152", "L154", "L167"}

\* C17: a trial whose state reset failed (a ctr command exited with another
\* status than 0, or raised) goes on: the process keeps running through the
\* trial, the sampler is started and the unpack invoked before its record is
\* returned, the record is returned, and the suite ends with all its records.
C17_ResetFailureNotFatal ==
    ResetFailed =>
      /\ pc \in TrialPcs =>
           /\ exit_code = Running
           /\ Len(results) = i - 1
           /\ IsPrefix(trial_log, TrialOrder)
      /\ pc \in {"L154", "L167"} =>
           /\ SubSeq(trial_log, 1, 3) = SubSeq(TrialOrder, 1, 3)
           /\ unpack_calls = i
      /\ pc \notin TrialPcs =>
           /\ results # <<>>
           /\ unpack_calls = Len(results)
           /\ SubSeq(trial_log, 1, 4) = SubSeq(TrialOrder, 1, 4)
      /\ pc = "exited" => Len(results) = num_runs

\* the reset of the first trial raised; the trial has returned its record
C17_Witness ==
    /\ reset = "raised"
    /\ pc = "loop"
    /\ Len(results) = 1
    /\ results[1].success

Max0(n) == IF n > 0 THEN n ELSE 0

\* C18: the pause is made exactly once between two consecutive trials and
\* never after the last: the k-th pause is made when trial k has been
\* recorded and trial k + 1 <= num_runs has not begun, and the suite ends
\* having made max(0, num_runs - 1) pauses.
C18_PausesBetweenTrials ==
    fetch = "ok" =>
      /\ pc = "L313" =>
           (Len(results) = i /\ i < num_runs /\ pauses = i - 1)
      /\ pc \in TrialPcs \cup {"prepare"} =>
           (Len(results) = i - 1 /\ i <= num_runs /\ pauses = i - 1)
      /\ pc \in {"summary", "save", "exited"} =>
           (Len(results) = num_runs /\ pauses = Max0(num_runs - 1))

\* a suite of two trials has ended: one pause was made
C18_Witness ==
    /\ pc = "exited" /\ num_runs = 2 /\ Len(results) = 2 /\ pauses = 1

\* C19: at most one sampling thread is alive at a time: when
\* start_monitoring sets the flag (line 52) every thread started earlier has
\* ended, and no thread other than the trial's own appends to the list of the
\* trial.
C19_OneSamplerAlive ==
    /\ Cardinality({t \in Threads : Alive(t)}) <= 1
    /\ pc = "L52" => \A t \in Threads : ~Alive(t)
    /\ \A t \in Threads : Alive(t) => t = stats_thread

\* C20: in every report the suite returns, successful_runs + failed_runs is
\* the number of trial records, which is num_runs, and successful_runs is the
\* number of records with success = true.
C20_CountsAddUp ==
    Reported =>
      LET rs == report.runs
          sm == report.summary
      IN /\ sm.successful_runs + sm.failed_runs = Len(rs)
         /\ Len(rs) = report.benchmark_config.num_runs
         /\ Len(rs) = num_runs
         /\ sm.successful_runs = Cardinality({k \in 1..Len(rs) : rs[k].success})

\* a report over a successful run and a run that exited with another status
C20_Witness ==
    /\ Reported
    /\ Len(report.runs) = 2
    /\ report.summary.successful_runs = 1
    /\ report.summary.failed_runs = 1
    /\ \E k \in 1..2 :
         ~report.runs[k].success /\ "error" \notin DOMAIN report.runs[k]

====
